---- MODULE Spec2Model ----
(***************************************************************************)
(* Smart Eye incident intake service (app.py).                             *)
(*                                                                         *)
(* State: the module-level list incident_storage, the persistence file     *)
(* INCIDENT_FILE, and the frames of the report_incident coroutines that    *)
(* are in flight.  A report_incident coroutine has one suspension point,   *)
(* "await image.read()" (line 101): everything before it and everything    *)
(* after it runs without yielding to the event loop.                       *)
(***************************************************************************)
EXTENDS Integers, Sequences, FiniteSets, TLC

\* ---------------------------------------------------------------- bounds
\* number of submissions that may append during one process lifetime
MaxStore == 2
\* longest record list found in the persistence file at startup
MaxLoaded == 1
\* number of wall-clock instants
MaxClock == 1

\* request slots: coroutines that can be in flight at the same time
Requests == {1, 2}

\* ------------------------------------------------------- python values
\* A decoded JSON scalar is the pair <<python type, text>>.
PyBool(b) == <<"bool", b>>
PyInt(n) == <<"int", n>>
PyStr(s) == <<"str", s>>
PyNone == <<"NoneType", "None">>

\* ---------------------------------------------------------- json.loads
\* The text of the form field `response`.  form is the shape of the text,
\* members the key/value tokens of an object in the order written.
\*   garbage : text no JSON parser accepts
\*   constant: the bare literal NaN (python's decoder accepts it as a float)
\*   array   : a JSON array
\*   object  : a JSON object
JsonText(form, members) == [form |-> form, members |-> members]

\* one JSON scalar token to its python value
JsonScalar(tok) ==
  CASE tok = "true" -> PyBool("True")
    [] tok = "false" -> PyBool("False")
    [] tok = "null" -> PyNone
    [] tok \in {"0", "1"} -> PyInt(tok)
    [] OTHER -> PyStr(tok)

\* python dict built from the members of an object: a later duplicate key
\* replaces the earlier value
RECURSIVE JsonObject(_)
JsonObject(members) ==
  IF members = <<>> THEN <<>>
  ELSE LET n == Len(members)
           head == JsonObject(SubSeq(members, 1, n - 1))
           k == members[n][1]
           v == JsonScalar(members[n][2])
       IN [x \in (DOMAIN head) \cup {k} |-> IF x = k THEN v ELSE head[x]]

\* json.loads(response): raises JSONDecodeError or returns a python value
JsonLoads(text) ==
  CASE text.form = "garbage" ->
         [raises |-> TRUE, pytype |-> "none", dict |-> <<>>]
    [] text.form = "constant" ->
         [raises |-> FALSE, pytype |-> "float", dict |-> <<>>]
    [] text.form = "array" ->
         [raises |-> FALSE, pytype |-> "list", dict |-> <<>>]
    [] OTHER ->
         [raises |-> FALSE, pytype |-> "dict", dict |-> JsonObject(text.members)]

\* --------------------------------------------------- format_image_base64
B64Alphabet ==
  << "A","B","C","D","E","F","G","H","I","J","K","L","M","N","O","P",
     "Q","R","S","T","U","V","W","X","Y","Z","a","b","c","d","e","f",
     "g","h","i","j","k","l","m","n","o","p","q","r","s","t","u","v",
     "w","x","y","z","0","1","2","3","4","5","6","7","8","9","+","/" >>

B64Char(n) == B64Alphabet[n + 1]

\* base64.b64encode: three bytes to four characters, '=' padding at the end
RECURSIVE B64Encode(_)
B64Encode(bytes) ==
  CASE Len(bytes) = 0 -> <<>>
    [] Len(bytes) = 1 ->
         LET n == bytes[1] * 16
         IN << B64Char(n \div 64), B64Char(n % 64), "=", "=" >>
    [] Len(bytes) = 2 ->
         LET n == (bytes[1] * 256 + bytes[2]) * 4
         IN << B64Char(n \div 4096), B64Char((n \div 64) % 64),
               B64Char(n % 64), "=" >>
    [] OTHER ->
         LET n == bytes[1] * 65536 + bytes[2] * 256 + bytes[3]
         IN << B64Char(n \div 262144), B64Char((n \div 4096) % 64),
               B64Char((n \div 64) % 64), B64Char(n % 64) >>
            \o B64Encode(SubSeq(bytes, 4, Len(bytes)))

\* the data URI, as the sequence of its pieces
format_image_base64(image_data, mime_type) ==
  <<"data:", mime_type, ";base64,">> \o B64Encode(image_data)

\* line 105: any declared content type but jpeg and png is relabelled jpeg
MimeType(content_type) ==
  IF content_type \in {"image/jpeg", "image/png"} THEN content_type
  ELSE "image/jpeg"

\* ------------------------------------------------------------ exceptions
Exc(cls, status, detail) == [cls |-> cls, status |-> status, detail |-> detail]

NoExc == Exc("none", 0, "")

\* str(e) of an exception, as the sequence of its pieces
Str(exc) ==
  IF exc.cls = "HTTPException" THEN <<ToString(exc.status), ": ", exc.detail>>
  ELSE <<exc.detail>>

\* status code, the strings of a JSON object body, the records of a JSON
\* array body
HttpResponse(status, detail, body) ==
  [status |-> status, detail |-> detail, body |-> body]

NoResponse == HttpResponse(0, <<>>, <<>>)

\* lines 131-132
response_for_client ==
  HttpResponse(200, <<"success", "Incident signale avec succes">>, <<>>)

\* the except clauses with the JSONDecodeError clause left out
ExceptClausesCatchAll(exc) == HttpResponse(500, Str(exc), <<>>)

\* lines 134-137: the except clauses of report_incident's try block.
\* HTTPException is a subclass of Exception, so the second clause also
\* catches the HTTPException(400) raised inside the try block.
ExceptClauses(exc) ==
  IF exc.cls = "JSONDecodeError"
  THEN HttpResponse(400, <<"Le JSON envoye n'est pas valide">>, <<>>)
  ELSE HttpResponse(500, Str(exc), <<>>)

\* ------------------------------------------------------------ validation
expected_keys == {"accident", "incendie", "violence", "commentaire"}

FlagKeys == <<"accident", "incendie", "violence">>

\* the flags that are true, each put in front of the ones found before
IncidentTypesPrepended(data) ==
  SelectSeq(<<FlagKeys[3], FlagKeys[2], FlagKeys[1]>>,
            LAMBDA k : data[k] = PyBool("True"))

\* lines 89-95: the flags that are true, tested in the fixed order
IncidentTypes(data) ==
  SelectSeq(FlagKeys, LAMBDA k : data[k] = PyBool("True"))

\* rejects unless every flag is true
NotAllIncidentTypes(incident_types) == Len(incident_types) < Len(FlagKeys)

\* line 97: "if not incident_types"
NoIncidentType(incident_types) == incident_types = <<>>

Validated(raised, exc, types, commentaire) ==
  [raised |-> raised, exc |-> exc, incident_types |-> types,
   commentaire |-> commentaire]

Rejected(exc) == Validated(TRUE, exc, <<>>, "")

\* lines 78-98: parse the form field, check its shape, its value types and
\* that one flag at least is true
ParseAndValidate(response) ==
  LET parsed == JsonLoads(response)
      data == parsed.dict
  IN IF parsed.raises
     THEN Rejected(Exc("JSONDecodeError", 0, "Expecting value"))
     ELSE IF parsed.pytype # "dict" \/ DOMAIN data # expected_keys
     THEN Rejected(Exc("HTTPException", 400, "Le JSON doit contenir exactement les quatre cles"))
     ELSE IF \E i \in DOMAIN FlagKeys : data[FlagKeys[i]][1] # "bool"
     THEN Rejected(Exc("HTTPException", 400, "Les champs doivent etre des booleens"))
     ELSE IF data["commentaire"][1] # "str"
     THEN Rejected(Exc("HTTPException", 400, "Le champ 'commentaire' doit etre une chaine"))
     ELSE IF NoIncidentType(IncidentTypes(data))
     THEN Rejected(Exc("HTTPException", 400, "Aucun type d'incident detecte"))
     ELSE Validated(FALSE, NoExc, IncidentTypes(data), data["commentaire"][2])

\* ------------------------------------------------------------ the record
\* the id counted from zero
ResponseDataZeroBased(storage, now, incident_types, image, commentaire) ==
  [id |-> Len(storage),
   timestamp |-> now,
   type |-> incident_types,
   location |-> "Cotonou - Carrefour SIKA",
   image |-> image,
   message |-> commentaire]

\* lines 110-117
ResponseData(storage, now, incident_types, image, commentaire) ==
  [id |-> Len(storage) + 1,
   timestamp |-> now,
   type |-> incident_types,
   location |-> "Cotonou - Carrefour SIKA",
   image |-> image,
   message |-> commentaire]

\* insert(0, record) in place of append(record)
StoreInsertFirst(storage, record) == <<record>> \o storage

\* line 125: incident_storage.append(response_data)
StoreAppend(storage, record) == Append(storage, record)

\* ------------------------------------------------------ persistence file
\* The file is absent, or holds a document: a JSON array of records, or
\* text that json.load rejects.
FileDoc(exists, form, items) == [exists |-> exists, form |-> form, items |-> items]

AbsentFile == FileDoc(FALSE, "none", <<>>)

\* json.dumps(incident_storage, ...)
JsonDumps(storage) == FileDoc(TRUE, "array", storage)

\* lines 35-41: the records the process starts with.  A file that does not
\* parse, or that parses to something extend() cannot iterate, is reported
\* and leaves the list empty.
LoadIncidents(f) ==
  IF ~f.exists THEN <<>>
  ELSE IF f.form = "array" THEN f.items
  ELSE <<>>

\* lines 44-50: the body of the coroutine save_incident_to_file.  A failure
\* of the write is printed, not raised.  An unopenable file is left as it was.
save_incident_to_file(storage, f, writable) ==
  [raised |-> FALSE, exc |-> NoExc,
   file |-> IF writable THEN JsonDumps(storage) ELSE f]

\* the save awaited, and its failure raised to the caller
SaveCallAwaitedUnguarded(storage, f, writable) ==
  [raised |-> ~writable, exc |-> Exc("OSError", 0, "Permission denied"),
   file |-> IF writable THEN JsonDumps(storage) ELSE f]

\* line 126: "save_incident_to_file()" without await.  The call builds a
\* coroutine object that is dropped; its body never runs.
SaveCall(storage, f, writable) ==
  [raised |-> FALSE, exc |-> NoExc, file |-> f]

\* ------------------------------------------------------------ the inputs
Obj(a, i, v, c) ==
  JsonText("object", << <<"accident", a>>, <<"incendie", i>>,
                        <<"violence", v>>, <<"commentaire", c>> >>)

Upload(bytes, content_type) == [bytes |-> bytes, content_type |-> content_type]

Submission(response, image) == [response |-> response, image |-> image]

Jpeg == Upload(<<255, 216, 255>>, "image/jpeg")

Gif == Upload(<<71>>, "image/gif")

EmptyUpload == Upload(<<>>, "image/jpeg")

Submissions ==
  { Submission(Obj("true", "false", "false", "test"), Jpeg),
    Submission(Obj("false", "true", "true", "feu"), Gif),
    Submission(Obj("true", "false", "true", "test"), EmptyUpload),
    Submission(Obj("false", "false", "false", "rien"), Jpeg),
    Submission(Obj("1", "false", "false", "test"), Jpeg),
    Submission(Obj("true", "false", "false", "null"), Jpeg),
    Submission(JsonText("object", << <<"accident", "true">>, <<"incendie", "false">>,
                                     <<"violence", "false">> >>), Jpeg),
    Submission(JsonText("object", << <<"accident", "true">>, <<"incendie", "false">>,
                                     <<"violence", "false">>, <<"commentaire", "test">>,
                                     <<"lieu", "Cotonou">> >>), Jpeg),
    Submission(JsonText("object", << <<"accident", "false">>, <<"incendie", "false">>,
                                     <<"violence", "false">>, <<"commentaire", "test">>,
                                     <<"accident", "true">> >>), Jpeg),
    Submission(JsonText("array", <<>>), Jpeg),
    Submission(JsonText("constant", <<>>), Jpeg),
    Submission(JsonText("garbage", <<>>), Jpeg),
    Submission(JsonText("garbage", <<>>), EmptyUpload) }

NoSubmission == Submission(JsonText("none", <<>>), Upload(<<>>, ""))

\* the request of GET /incidents, which carries nothing
GetRequest == Submission(JsonText("GET", <<>>), Upload(<<>>, ""))

\* records an earlier process may have left in the file
OldRecords ==
  { [id |-> 2, timestamp |-> 0, type |-> <<"violence">>,
     location |-> "Cotonou - Carrefour SIKA",
     image |-> format_image_base64(<<71>>, "image/png"), message |-> "ancien"] }

RECURSIVE SeqsUpTo(_, _)
SeqsUpTo(S, n) ==
  IF n = 0 THEN {<<>>}
  ELSE LET shorter == SeqsUpTo(S, n - 1)
       IN shorter \cup {Append(s, x) : s \in shorter, x \in S}

Files ==
  {AbsentFile, FileDoc(TRUE, "garbage", <<>>)}
  \cup {FileDoc(TRUE, "array", items) : items \in SeqsUpTo(OldRecords, MaxLoaded)}

\* ------------------------------------------------------------- the state
VARIABLES
  incident_storage,  \* the module-level list (line 29)
  INCIDENT_FILE,     \* the content of incident_data.json (line 32)
  disk_writable,     \* whether opening the file for writing succeeds
  clock,             \* the last instant datetime.now returned (line 112)
  loaded,            \* number of records loaded at startup (line 39)
  pc,                \* per request: "idle", "reading" (suspended at line 101), "done"
  req,               \* per request: the submission being handled
  locals,            \* per request: incident_types and data["commentaire"]
  response_sent,     \* per request: the HTTP response of the handler
  len_at_start       \* per request: len(incident_storage) when the handler
                     \* suspended at line 101 (history, read by no handler)

vars == <<incident_storage, INCIDENT_FILE, disk_writable, clock, loaded,
          pc, req, locals, response_sent, len_at_start>>

NoLocals == [incident_types |-> <<>>, commentaire |-> ""]

Reading == {q \in Requests : pc[q] = "reading"}

Init ==
  /\ INCIDENT_FILE \in Files
  /\ incident_storage = LoadIncidents(INCIDENT_FILE)
  /\ loaded = Len(LoadIncidents(INCIDENT_FILE))
  /\ disk_writable \in BOOLEAN
  /\ clock = 0
  /\ pc = [r \in Requests |-> "idle"]
  /\ req = [r \in Requests |-> NoSubmission]
  /\ locals = [r \in Requests |-> NoLocals]
  /\ response_sent = [r \in Requests |-> NoResponse]
  /\ len_at_start = [r \in Requests |-> 0]

\* lines 76-101: from the start of the handler to the suspension at
\* "await image.read()", or to the exception raised by the validation.
\* A new request takes the lowest free slot.
report_incident_begin(r, sub) ==
  LET v == ParseAndValidate(sub.response)
  IN /\ pc[r] = "idle"
     /\ \A q \in Requests : q < r => pc[q] # "idle"
     /\ v.raised \/ Len(incident_storage) + Cardinality(Reading) < loaded + MaxStore
     /\ req' = [req EXCEPT ![r] = sub]
     /\ IF v.raised
        THEN /\ pc' = [pc EXCEPT ![r] = "done"]
             /\ response_sent' = [response_sent EXCEPT ![r] = ExceptClauses(v.exc)]
             /\ UNCHANGED <<locals, len_at_start>>
        ELSE /\ pc' = [pc EXCEPT ![r] = "reading"]
             /\ locals' = [locals EXCEPT ![r] =
                             [incident_types |-> v.incident_types,
                              commentaire |-> v.commentaire]]
             /\ len_at_start' = [len_at_start EXCEPT ![r] = Len(incident_storage)]
             /\ UNCHANGED response_sent
     /\ UNCHANGED <<incident_storage, INCIDENT_FILE, disk_writable, clock,
                    loaded>>

\* lines 101-137: from the resumption with the image bytes to the response.
\* now is the instant datetime.now returns: the wall clock does not go back.
report_incident_resume(r, now) ==
  LET image_data == req[r].image.bytes
      mime_type == MimeType(req[r].image.content_type)
      response_data ==
        ResponseData(incident_storage, now, locals[r].incident_types,
                     format_image_base64(image_data, mime_type),
                     locals[r].commentaire)
      stored == StoreAppend(incident_storage, response_data)
      saved == SaveCall(stored, INCIDENT_FILE, disk_writable)
  IN /\ pc[r] = "reading"
     /\ pc' = [pc EXCEPT ![r] = "done"]
     /\ IF image_data = <<>>
        THEN /\ response_sent' = [response_sent EXCEPT ![r] =
                  ExceptClauses(Exc("HTTPException", 400, "L'image est vide"))]
             /\ UNCHANGED <<incident_storage, INCIDENT_FILE, clock>>
        ELSE /\ incident_storage' = stored
             /\ clock' = now
             /\ INCIDENT_FILE' = saved.file
             /\ response_sent' = [response_sent EXCEPT ![r] =
                  IF saved.raised THEN ExceptClauses(saved.exc)
                  ELSE response_for_client]
     /\ UNCHANGED <<disk_writable, loaded, req, locals, len_at_start>>

\* the response has gone out and the coroutine's frame is released
Deliver(r) ==
  /\ pc[r] = "done"
  /\ pc' = [pc EXCEPT ![r] = "idle"]
  /\ req' = [req EXCEPT ![r] = NoSubmission]
  /\ locals' = [locals EXCEPT ![r] = NoLocals]
  /\ response_sent' = [response_sent EXCEPT ![r] = NoResponse]
  /\ len_at_start' = [len_at_start EXCEPT ![r] = 0]
  /\ UNCHANGED <<incident_storage, INCIDENT_FILE, disk_writable, clock,
                 loaded>>

\* lines 140-142: the handler has no suspension point
get_incidents(r) ==
  /\ pc[r] = "idle"
  /\ \A q \in Requests : q < r => pc[q] # "idle"
  /\ pc' = [pc EXCEPT ![r] = "done"]
  /\ req' = [req EXCEPT ![r] = GetRequest]
  /\ response_sent' = [response_sent EXCEPT ![r] =
                         HttpResponse(200, <<>>, incident_storage)]
  /\ UNCHANGED <<incident_storage, INCIDENT_FILE, disk_writable, clock,
                 loaded, locals, len_at_start>>

Next ==
  \/ \E r \in Requests, sub \in Submissions : report_incident_begin(r, sub)
  \/ \E r \in Requests, now \in clock..MaxClock : report_incident_resume(r, now)
  \/ \E r \in Requests : Deliver(r)
  \/ \E r \in Requests : get_incidents(r)

Spec == Init /\ [][Next]_vars

\* ============================================================ the claims
\* What a submission says, read off its text without the handler's code.
Keys(text) == {text.members[i][1] : i \in DOMAIN text.members}

\* the token the last member named k carries
FieldOf(text, k) ==
  LET at == {i \in DOMAIN text.members : text.members[i][1] = k}
      last == CHOOSE i \in at : \A j \in at : j <= i
  IN text.members[last][2]

ExactKeys(text) ==
  /\ text.form = "object"
  /\ Keys(text) = {"accident", "incendie", "violence", "commentaire"}

\* the four keys, boolean flags, a string comment
WellTyped(text) ==
  /\ ExactKeys(text)
  /\ \A k \in {"accident", "incendie", "violence"} :
       FieldOf(text, k) \in {"true", "false"}
  /\ FieldOf(text, "commentaire") \notin {"true", "false", "null", "0", "1"}

Flag(text, k) == FieldOf(text, k) = "true"

SomeFlag(text) == \E k \in {"accident", "incendie", "violence"} : Flag(text, k)

ExpectedType(text) ==
  (IF Flag(text, "accident") THEN <<"accident">> ELSE <<>>)
  \o (IF Flag(text, "incendie") THEN <<"incendie">> ELSE <<>>)
  \o (IF Flag(text, "violence") THEN <<"violence">> ELSE <<>>)

IsPost(sub) == sub.response.form \in {"object", "array", "constant", "garbage"}

\* request r's handler returns in this step
Completes(r) == pc[r] # "done" /\ pc'[r] = "done"

Succeeded(r) == pc[r] = "done" /\ IsPost(req[r]) /\ response_sent[r].status = 200

\* the indexes of the records appended since startup
AppendedAt(storage) == (loaded + 1)..Len(storage)

\* C1: a submission with the exact four keys, boolean flags of which one at
\* least is true, a string comment and a non-empty image is answered 200
\* "success", and the store grows by exactly one record, the submission's,
\* at the tail.
C1_ValidSubmissionAppends ==
  [][\A r \in Requests :
       (/\ Completes(r)
        /\ WellTyped(req'[r].response)
        /\ SomeFlag(req'[r].response)
        /\ req'[r].image.bytes # <<>>)
       => /\ response_sent'[r].status = 200
          /\ response_sent'[r].detail[1] = "success"
          /\ Len(incident_storage') = Len(incident_storage) + 1
          /\ SubSeq(incident_storage', 1, Len(incident_storage)) = incident_storage
          /\ incident_storage'[Len(incident_storage')].message
               = FieldOf(req'[r].response, "commentaire")
          /\ incident_storage'[Len(incident_storage')].location
               = "Cotonou - Carrefour SIKA"]_vars

C1_Witness ==
  \E r \in Requests :
    /\ Succeeded(r)
    /\ req[r].image.content_type = "image/gif"
    /\ loaded = 1
    /\ Len(incident_storage) = loaded + 1
    /\ incident_storage[Len(incident_storage)].message = "feu"

\* C2: a submission with the exact four keys, well typed, whose three flags
\* are all false is answered 400 and leaves the store unchanged.
C2_AllFalseIs400 ==
  [][\A r \in Requests :
       (/\ Completes(r)
        /\ WellTyped(req'[r].response)
        /\ ~SomeFlag(req'[r].response))
       => /\ response_sent'[r].status = 400
          /\ incident_storage' = incident_storage]_vars

\* C3: a submission whose JSON object has a key set other than the exact four
\* keys is answered 400 and leaves the store unchanged.
C3_WrongKeysIs400 ==
  [][\A r \in Requests :
       (/\ Completes(r)
        /\ req'[r].response.form = "object"
        /\ ~ExactKeys(req'[r].response))
       => /\ response_sent'[r].status = 400
          /\ incident_storage' = incident_storage]_vars

\* C4: a submission that passes the validation of its JSON body and whose
\* image has no bytes is answered 400 and leaves the store unchanged.
C4_EmptyImageIs400 ==
  [][\A r \in Requests :
       (/\ Completes(r)
        /\ WellTyped(req'[r].response)
        /\ SomeFlag(req'[r].response)
        /\ req'[r].image.bytes = <<>>)
       => /\ response_sent'[r].status = 400
          /\ incident_storage' = incident_storage]_vars

\* C5: once a submission has succeeded and no handler is suspended, loading
\* the persistence file as at process start gives the in-memory store.
C5_FileHoldsStore ==
  ((\E r \in Requests : Succeeded(r)) /\ Reading = {})
  => LoadIncidents(INCIDENT_FILE) = incident_storage

TypeInOrder(t) ==
  /\ t # <<>>
  /\ \E a, i, v \in BOOLEAN :
       t = (IF a THEN <<"accident">> ELSE <<>>)
           \o (IF i THEN <<"incendie">> ELSE <<>>)
           \o (IF v THEN <<"violence">> ELSE <<>>)

C7_TypeIsOrderedFlags ==
  [][/\ \A r \in Requests :
          (Completes(r) /\ incident_storage' # incident_storage)
          => incident_storage'[Len(incident_storage')].type
               = ExpectedType(req'[r].response)
     /\ \A k \in AppendedAt(incident_storage') :
          TypeInOrder(incident_storage'[k].type)
     /\ \A r \in Requests :
          (Completes(r) /\ req'[r] = GetRequest)
          => \A k \in AppendedAt(response_sent'[r].body) :
               TypeInOrder(response_sent'[r].body[k].type)]_vars

C7_Witness ==
  \E r \in Requests :
    /\ pc[r] = "done" /\ req[r] = GetRequest
    /\ Len(response_sent[r].body) = loaded + 2
    /\ response_sent[r].body[loaded + 1].type = <<"incendie", "violence">>
    /\ response_sent[r].body[loaded + 2].type = <<"accident">>

\* C8: when the file cannot be written, a submission that appends its record
\* is still answered 200 "success" and the record is in the store.
C8_PersistFailureSwallowed ==
  [][\A r \in Requests :
       (/\ Completes(r)
        /\ ~disk_writable
        /\ incident_storage' # incident_storage)
       => /\ response_sent'[r] = response_for_client
          /\ Len(incident_storage') = Len(incident_storage) + 1
          /\ incident_storage'[Len(incident_storage')].message
               = FieldOf(req'[r].response, "commentaire")]_vars

C8_Witness ==
  \E r \in Requests :
    /\ Succeeded(r)
    /\ ~disk_writable
    /\ Len(incident_storage) > loaded
    /\ LoadIncidents(INCIDENT_FILE) # incident_storage

\* C9: whatever the interleaving, the record a submission appends has the id
\* "number of records before the append, plus one", and the ids of the
\* appended records increase strictly in insertion order.
C9_IdIsLengthPlusOne ==
  [][(Len(incident_storage') > Len(incident_storage))
     => /\ incident_storage'[Len(incident_storage')].id = Len(incident_storage) + 1
        /\ \A j, k \in AppendedAt(incident_storage') :
             j < k => incident_storage'[j].id < incident_storage'[k].id]_vars

\* a handler that another handler's append overtook while it was suspended
C9_Witness ==
  \E r \in Requests :
    /\ Succeeded(r)
    /\ Len(incident_storage) = len_at_start[r] + 2
    /\ len_at_start[r] >= loaded
    /\ incident_storage[Len(incident_storage)].message
         = FieldOf(req[r].response, "commentaire")
    /\ incident_storage[Len(incident_storage)].id = Len(incident_storage)

\* C10: the store only ever changes by one record added at the tail, by a
\* submission answered 200; a rejected submission and GET /incidents leave
\* it unchanged; GET /incidents answers the whole store in order.
C10_AppendOnly ==
  [][/\ (incident_storage' # incident_storage)
        => /\ Len(incident_storage') = Len(incident_storage) + 1
           /\ SubSeq(incident_storage', 1, Len(incident_storage)) = incident_storage
           /\ \E r \in Requests :
                /\ Completes(r)
                /\ IsPost(req'[r])
                /\ response_sent'[r].status = 200
     /\ \A r \in Requests :
          (Completes(r) /\ response_sent'[r].status # 200)
          => incident_storage' = incident_storage
     /\ \A r \in Requests :
          (Completes(r) /\ req'[r] = GetRequest)
          => /\ incident_storage' = incident_storage
             /\ response_sent'[r].status = 200
             /\ response_sent'[r].body = incident_storage]_vars

C10_Witness ==
  \E r, q \in Requests :
    /\ pc[r] = "done" /\ req[r] = GetRequest
    /\ loaded = 1
    /\ Len(incident_storage) = loaded + 1
    /\ response_sent[r].body = incident_storage
    /\ pc[q] = "done" /\ IsPost(req[q]) /\ response_sent[q].status = 500

====
